---- MODULE Spec2Model ----
(***************************************************************************)
(* Model of the Spotify client of src/src/wrapper.ts: the class Wrapper    *)
(* (credentials, the access token, the authenticated GET primitive, the    *)
(* read methods built on it and the two POST methods) and the class        *)
(* TrackAnalysis (getTrackFeatures, analyzePlaylist).                      *)
(*                                                                         *)
(* Every async method is a call frame in `calls`; a frame's pc is the      *)
(* await it is suspended at.  The transport (axios) is the environment:    *)
(* every request the client issues is appended to `reqs`, and the          *)
(* transport later completes it with a success (and a body) or a failure   *)
(* (a rejection or a non-2xx status, which axios turns into a rejection).  *)
(***************************************************************************)
EXTENDS Integers, Sequences, FiniteSets, TLC

(* ---------------------------- bounds ----------------------------------- *)
MaxTop == 2      \* public methods invoked by the caller
MaxCalls == 4    \* call frames in all (the caller's calls and the nested ones)
MaxTracks == 2   \* tracks of a playlist body
MaxId == 2       \* distinct track ids, response entities and tokens
MaxArg == 1      \* distinct credentials and arguments of the caller

Ids == 1..MaxId
Args == 1..MaxArg
Tokens == 1..MaxId

(* ------------------------- JSON values --------------------------------- *)
(* A value is a record [k, n, s]: k names the shape, n an id, s a list of  *)
(* ids.                                                                    *)
(*   undefined       the absent value                                      *)
(*   null            JSON null                                             *)
(*   TypeError       not a value: the evaluation threw                     *)
(*   string          the id n                                              *)
(*   object          {id: n}: an entity with neither `tracks` nor `items`  *)
(*   playlist        {id: n, tracks: {items: [{track: {id: s[i]}} ...]}}   *)
(*   playlistTracks  {items: [{track: {id: s[i]}} ...]}                    *)
(*   trackItems      [{track: {id: s[i]}} ...]                             *)
(*   search          {tracks: {items: [s ...]}}                            *)
(*   searchNoItems   {tracks: {}}                                          *)
(*   topTracks       {tracks: [s ...]}                                     *)
(*   paging          {items: [s ...]}                                      *)
(*   list            [s ...]                                               *)
(*   array           the array of a frame's results field                 *)
Val(k, n, s) == [k |-> k, n |-> n, s |-> s]
undefined == Val("undefined", 0, <<>>)
null == Val("null", 0, <<>>)
TypeError == Val("TypeError", 0, <<>>)
Object(n) == Val("object", n, <<>>)
Playlist(n, s) == Val("playlist", n, s)

Nullish(v) == v.k \in {"undefined", "null"}

\* v.name of JavaScript: throws on undefined and null, undefined when the
\* property is missing.
Get(v, name) ==
    IF v.k = "TypeError" \/ Nullish(v) THEN TypeError
    ELSE IF name = "tracks" THEN
        CASE v.k = "playlist" -> Val("playlistTracks", 0, v.s)
          [] v.k = "search" -> Val("paging", 0, v.s)
          [] v.k = "searchNoItems" -> Object(0)
          [] v.k = "topTracks" -> Val("list", 0, v.s)
          [] OTHER -> undefined
    ELSE IF name = "items" THEN
        CASE v.k = "playlistTracks" -> Val("trackItems", 0, v.s)
          [] v.k = "paging" -> Val("list", 0, v.s)
          [] OTHER -> undefined
    ELSE IF name = "id" THEN
        CASE v.k \in {"object", "playlist"} -> Val("string", v.n, <<>>)
          [] OTHER -> undefined
    ELSE undefined

(* ------------------------------ state ---------------------------------- *)
VARIABLES
    clientId,      \* Wrapper.clientId
    clientSecret,  \* Wrapper.clientSecret
    accessToken,   \* Wrapper.accessToken: NullToken or a token
    calls,         \* the call frames, in the order the calls were made
    reqs,          \* the requests handed to the transport, in issue order
    lastToken      \* history: the token request that succeeded last (0: none)

vars == <<clientId, clientSecret, accessToken, calls, reqs, lastToken>>

NullToken == 0

(* --------------------------- the transport ----------------------------- *)
\* A request: kind is "token", "GET" or "POST"; owner is the frame that
\* issued it; url is <<endpoint, id>>; auth is <<"Basic", id, secret>> or
\* <<"Bearer", token>>; data is the query parameters or the posted body;
\* status is "pending", "ok" or "failed"; body is the response body.
Request(kind, owner, url, auth, data) ==
    [kind |-> kind, owner |-> owner, url |-> url, auth |-> auth,
     data |-> data, status |-> "pending", body |-> undefined]

TokenBody(t) == Val("tokenBody", t, <<>>)   \* {access_token: t}

\* Lists of at most n ids.
RECURSIVE SeqsUpTo(_)
SeqsUpTo(n) ==
    IF n = 0 THEN {<<>>}
    ELSE LET shorter == SeqsUpTo(n - 1)
         IN shorter \cup {Append(s, i) : s \in {t \in shorter : Len(t) = n - 1}, i \in Ids}

TrackSeqs == SeqsUpTo(MaxTracks)
ShortSeqs == {s \in TrackSeqs : Len(s) <= 1}

\* The bodies the transport may answer a successful request with: the shape
\* the endpoint documents, and shapes that lack the fields the client reads.
Bodies(endpoint) ==
    CASE endpoint = "playlists" ->
            {Playlist(1, s) : s \in TrackSeqs} \cup {Object(1), null}
      [] endpoint = "search" ->
            {Val("search", 0, s) : s \in ShortSeqs}
                \cup {Object(1), Val("searchNoItems", 0, <<>>)}
      [] endpoint = "top-tracks" ->
            {Val("topTracks", 0, s) : s \in ShortSeqs} \cup {Object(1)}
      [] endpoint = "artist-albums" ->
            {Val("paging", 0, s) : s \in ShortSeqs} \cup {Object(1)}
      [] endpoint = "user-playlists" -> {Playlist(1, <<>>), null}
      [] OTHER -> {Object(n) : n \in Ids}

(* ------------------------------ frames --------------------------------- *)
\* A call of an async method.  parent is the frame awaiting it (0: the
\* caller of the library).  pc is the await the call is suspended at;
\* "done" means its promise is settled: result is the value it resolved to,
\* or TypeError when it rejected; results is the array of analyzePlaylist;
\* nth is history: its place among its parent's calls in settling order.
Frame(method, args, parent, pc) ==
    [method |-> method, args |-> args, parent |-> parent, pc |-> pc,
     result |-> undefined, results |-> <<>>, nth |-> 0]

ReadMethods ==
    {"makeRequest", "getPlaylist", "searchTracks", "getAlbum", "getArtist",
     "getUserProfile", "getArtistTopTracks", "getArtistAlbums", "getTrackFeatures"}

\* The URL each read method builds, as <<endpoint, path id>>.
Url(method, args) ==
    CASE method = "makeRequest" -> <<"url", args[1]>>
      [] method = "getPlaylist" -> <<"playlists", args[1]>>
      [] method = "searchTracks" -> <<"search", 0>>
      [] method = "getAlbum" -> <<"albums", args[1]>>
      [] method = "getArtist" -> <<"artists", args[1]>>
      [] method = "getUserProfile" -> <<"users", args[1]>>
      [] method = "getArtistTopTracks" -> <<"top-tracks", args[1]>>
      [] method = "getArtistAlbums" -> <<"artist-albums", args[1]>>
      [] method = "getTrackFeatures" -> <<"audio-features", args[1]>>

\* The query parameters each read method passes to makeRequest.
Params(method, args) ==
    CASE method = "makeRequest" -> <<args[2]>>
      [] method = "searchTracks" -> <<args[1], "track">>
      [] method = "getArtistTopTracks" -> <<args[2]>>
      [] OTHER -> <<>>

\* Mutation of Return: the list methods turn an absent list into an empty one.
ReturnCoerced(method, data) ==
    LET v == CASE method = "searchTracks" ->
                    IF Nullish(data) THEN undefined
                    ELSE Get(Get(data, "tracks"), "items")
               [] method = "getArtistTopTracks" ->
                    IF Nullish(data) THEN undefined ELSE Get(data, "tracks")
               [] method = "getArtistAlbums" ->
                    IF Nullish(data) THEN undefined ELSE Get(data, "items")
               [] OTHER -> data
    IN  IF method \in {"searchTracks", "getArtistTopTracks", "getArtistAlbums"}
           /\ Nullish(v)
        THEN Val("list", 0, <<>>) ELSE v

\* Mutation of Return: searchTracks unwraps one level only.
ReturnOneLevel(method, data) ==
    CASE method = "searchTracks" ->
            IF Nullish(data) THEN undefined ELSE Get(data, "tracks")
      [] method = "getArtistTopTracks" ->
            IF Nullish(data) THEN undefined ELSE Get(data, "tracks")
      [] method = "getArtistAlbums" ->
            IF Nullish(data) THEN undefined ELSE Get(data, "items")
      [] OTHER -> data

\* What a read method returns for the value `data` makeRequest resolved to.
Return(method, data) ==
    CASE method = "searchTracks" ->
            IF Nullish(data) THEN undefined ELSE Get(Get(data, "tracks"), "items")
      [] method = "getArtistTopTracks" ->
            IF Nullish(data) THEN undefined ELSE Get(data, "tracks")
      [] method = "getArtistAlbums" ->
            IF Nullish(data) THEN undefined ELSE Get(data, "items")
      [] OTHER -> data

Frames == 1..Len(calls)
Requests == 1..Len(reqs)
TopCalls == {c \in Frames : calls[c].parent = 0}
Children(p) == {c \in Frames : calls[c].parent = p}
RequestsOf(c, kind) == {r \in Requests : reqs[r].owner = c /\ reqs[r].kind = kind}
PendingOf(c, kind) == {r \in RequestsOf(c, kind) : reqs[r].status = "pending"}

\* How many of the calls that frame c's parent made have settled.
Settled(c) ==
    IF calls[c].parent = 0 THEN 0
    ELSE Cardinality({d \in Children(calls[c].parent) : calls[d].pc = "done"})

\* Frames that analyzePlaylist calls still have to create: a playlist that
\* has arrived and whose tracks have not been fetched yet.
RECURSIVE ReservedUpTo(_)
ReservedUpTo(c) ==
    IF c = 0 THEN 0
    ELSE ReservedUpTo(c - 1) +
         (IF /\ calls[c].method = "getPlaylist"
             /\ calls[c].parent # 0
             /\ calls[c].pc = "done"
             /\ calls[calls[c].parent].pc = "getPlaylist"
             /\ calls[c].result.k = "playlist"
          THEN Len(calls[c].result.s) ELSE 0)
Free == MaxCalls - Len(calls) - ReservedUpTo(Len(calls))

CanStart(frames) == Cardinality(TopCalls) < MaxTop /\ frames <= Free

(* ------------------------------ Wrapper -------------------------------- *)
Init ==
    /\ clientId \in Args
    /\ clientSecret \in Args
    /\ accessToken = NullToken
    /\ calls = <<>>
    /\ reqs = <<>>
    /\ lastToken = 0

\* authenticate, up to its await: the token request it posts.
authenticateRequest(c) ==
    Request("token", c, <<"token", 0>>, <<"Basic", clientId, clientSecret>>,
            <<"client_credentials">>)

\* Mutation of Invoke: a token that is held is reused, not fetched again.
InvokeCached(method, args, parent) ==
    IF accessToken = NullToken
    THEN /\ calls' = Append(calls, Frame(method, args, parent, "authenticate"))
         /\ reqs' = Append(reqs, authenticateRequest(Len(calls) + 1))
         /\ UNCHANGED <<clientId, clientSecret, accessToken, lastToken>>
    ELSE /\ calls' = Append(calls, Frame(method, args, parent, "options"))
         /\ UNCHANGED <<clientId, clientSecret, accessToken, reqs, lastToken>>

\* A read method is called: it calls makeRequest, which calls authenticate,
\* which posts the token request and suspends.
Invoke(method, args, parent) ==
    /\ calls' = Append(calls, Frame(method, args, parent, "authenticate"))
    /\ reqs' = Append(reqs, authenticateRequest(Len(calls) + 1))
    /\ UNCHANGED <<clientId, clientSecret, accessToken, lastToken>>

\* authenticate, after its await: the token request of frame c completes.
authenticateSuccess(c, r, t) ==
    /\ reqs' = [reqs EXCEPT ![r].status = "ok", ![r].body = TokenBody(t)]
    /\ accessToken' = t
    /\ lastToken' = r

\* Mutation of authenticateFailure: a failure clears the token.
authenticateFailureClears(c, r) ==
    /\ reqs' = [reqs EXCEPT ![r].status = "failed"]
    /\ accessToken' = NullToken
    /\ UNCHANGED lastToken

authenticateFailure(c, r) ==
    /\ reqs' = [reqs EXCEPT ![r].status = "failed"]
    /\ UNCHANGED <<accessToken, lastToken>>

\* Mutation of authenticate: a failure ends the call with no value.
authenticateAborting(c) ==
    /\ calls[c].pc = "authenticate"
    /\ \E r \in PendingOf(c, "token") :
          \/ /\ \E t \in Tokens : authenticateSuccess(c, r, t)
             /\ calls' = [calls EXCEPT ![c].pc = "options"]
          \/ /\ authenticateFailure(c, r)
             /\ calls' = [calls EXCEPT ![c].pc = "done"]
    /\ UNCHANGED <<clientId, clientSecret>>

authenticate(c) ==
    /\ calls[c].pc = "authenticate"
    /\ \E r \in PendingOf(c, "token") :
          \/ \E t \in Tokens : authenticateSuccess(c, r, t)
          \/ authenticateFailure(c, r)
    /\ calls' = [calls EXCEPT ![c].pc = "options"]
    /\ UNCHANGED <<clientId, clientSecret>>

\* Mutation of BearerOf: the token of the call's own token response.
BearerOfResponse(c) ==
    LET own == {r \in RequestsOf(c, "token") : reqs[r].status = "ok"}
    IN  IF own = {} THEN NullToken ELSE reqs[CHOOSE r \in own : TRUE].body.n

\* makeRequest, resumed after `await this.authenticate()`: it builds the
\* options from the token the field holds now and issues the GET.
BearerOf(c) == accessToken

makeRequestGet(c) ==
    /\ calls[c].pc = "options"
    /\ reqs' = Append(reqs, Request("GET", c, Url(calls[c].method, calls[c].args),
                                    <<"Bearer", BearerOf(c)>>,
                                    Params(calls[c].method, calls[c].args)))
    /\ calls' = [calls EXCEPT ![c].pc = "get"]
    /\ UNCHANGED <<clientId, clientSecret, accessToken, lastToken>>

\* Mutation of makeRequestData: the failure of the GET is thrown on.
makeRequestDataThrown(ok, body) == IF ok THEN body ELSE TypeError

\* makeRequest, after the GET: the body on success, nothing on failure; the
\* read method that called it unwraps the envelope.
makeRequestData(ok, body) == IF ok THEN body ELSE undefined

makeRequestResolve(c) ==
    /\ calls[c].pc = "get"
    /\ \E r \in PendingOf(c, "GET") :
          \E ok \in BOOLEAN :
          \E body \in (IF ok THEN Bodies(reqs[r].url[1]) ELSE {undefined}) :
             /\ (calls[c].parent # 0 /\ body.k = "playlist") => Len(body.s) <= Free
             /\ reqs' = [reqs EXCEPT ![r].status = IF ok THEN "ok" ELSE "failed",
                                     ![r].body = body]
             /\ calls' = [calls EXCEPT
                    ![c].pc = "done",
                    ![c].nth = Settled(c) + 1,
                    ![c].result = Return(calls[c].method, makeRequestData(ok, body))]
    /\ UNCHANGED <<clientId, clientSecret, accessToken, lastToken>>

makeRequest ==
    \E u \in Args : CanStart(1) /\ Invoke("makeRequest", <<u, 0>>, 0)
getPlaylist ==
    \E id \in Args : CanStart(1) /\ Invoke("getPlaylist", <<id>>, 0)
searchTracks ==
    \E q \in Args : CanStart(1) /\ Invoke("searchTracks", <<q>>, 0)
getAlbum ==
    \E id \in Args : CanStart(1) /\ Invoke("getAlbum", <<id>>, 0)
getArtist ==
    \E id \in Args : CanStart(1) /\ Invoke("getArtist", <<id>>, 0)
getUserProfile ==
    \E id \in Args : CanStart(1) /\ Invoke("getUserProfile", <<id>>, 0)
getArtistTopTracks ==
    \E id \in Args : CanStart(1) /\ Invoke("getArtistTopTracks", <<id, 1>>, 0)
getArtistAlbums ==
    \E id \in Args : CanStart(1) /\ Invoke("getArtistAlbums", <<id>>, 0)

\* Mutation of createPlaylist: it posts a token request of its own first.
createPlaylistAuthenticating ==
    \E userId \in Args, publicStatus \in BOOLEAN :
       /\ CanStart(1)
       /\ calls' = Append(calls, Frame("createPlaylist",
                                       <<userId, 1, 1, publicStatus>>, 0, "post"))
       /\ reqs' = reqs \o
            << authenticateRequest(Len(calls) + 1),
               Request("POST", Len(calls) + 1, <<"user-playlists", userId>>,
                       <<"Bearer", accessToken>>, <<1, 1, publicStatus>>) >>
       /\ UNCHANGED <<clientId, clientSecret, accessToken, lastToken>>

\* createPlaylist and addTracksToPlaylist, up to their await: the POST
\* carries the token the field holds when the method is called.
createPlaylist ==
    \E userId \in Args, publicStatus \in BOOLEAN :
       /\ CanStart(1)
       /\ calls' = Append(calls, Frame("createPlaylist",
                                       <<userId, 1, 1, publicStatus>>, 0, "post"))
       /\ reqs' = Append(reqs, Request("POST", Len(calls) + 1,
                                       <<"user-playlists", userId>>,
                                       <<"Bearer", accessToken>>,
                                       <<1, 1, publicStatus>>))
       /\ UNCHANGED <<clientId, clientSecret, accessToken, lastToken>>

addTracksToPlaylist ==
    \E playlistId \in Args, trackUris \in ShortSeqs :
       /\ CanStart(1)
       /\ calls' = Append(calls, Frame("addTracksToPlaylist",
                                       <<playlistId, trackUris>>, 0, "post"))
       /\ reqs' = Append(reqs, Request("POST", Len(calls) + 1,
                                       <<"playlist-tracks", playlistId>>,
                                       <<"Bearer", accessToken>>,
                                       <<trackUris>>))
       /\ UNCHANGED <<clientId, clientSecret, accessToken, lastToken>>

\* What the two POST methods return once the POST has completed.
createPlaylistReturn(ok, body) == IF ok THEN body ELSE undefined
\* Mutation of addTracksToPlaylistReturn: the response body is returned.
addTracksToPlaylistReturnsBody(ok, body) == IF ok THEN body ELSE undefined
addTracksToPlaylistReturn(ok, body) == undefined

postResolve(c) ==
    /\ calls[c].pc = "post"
    /\ \E r \in PendingOf(c, "POST") :
          \E ok \in BOOLEAN :
          \E body \in (IF ok THEN Bodies(reqs[r].url[1]) ELSE {undefined}) :
             /\ reqs' = [reqs EXCEPT ![r].status = IF ok THEN "ok" ELSE "failed",
                                     ![r].body = body]
             /\ calls' = [calls EXCEPT
                    ![c].pc = "done",
                    ![c].result = IF calls[c].method = "createPlaylist"
                                  THEN createPlaylistReturn(ok, body)
                                  ELSE addTracksToPlaylistReturn(ok, body)]
    /\ UNCHANGED <<clientId, clientSecret, accessToken, lastToken>>

(* --------------------------- TrackAnalysis ----------------------------- *)
RECURSIVE Ordered(_)
Ordered(S) ==
    IF S = {} THEN <<>>
    ELSE LET m == CHOOSE x \in S : \A y \in S : x <= y
         IN <<m>> \o Ordered(S \ {m})

\* The getTrackFeatures calls of the analyzePlaylist call p, in call order.
FeatureCalls(p) ==
    Ordered({c \in Children(p) : calls[c].method = "getTrackFeatures"})
PlaylistCall(p) == CHOOSE c \in Children(p) : calls[c].method = "getPlaylist"

getTrackFeatures ==
    \E trackId \in Args : CanStart(1) /\ Invoke("getTrackFeatures", <<trackId>>, 0)

\* analyzePlaylist, up to `await this.wrapper.getPlaylist(playlistId)`.
analyzePlaylist ==
    \E playlistId \in Args :
       /\ CanStart(2)
       /\ calls' = calls \o
            << Frame("analyzePlaylist", <<playlistId>>, 0, "getPlaylist"),
               Frame("getPlaylist", <<playlistId>>, Len(calls) + 1, "authenticate") >>
       /\ reqs' = Append(reqs, authenticateRequest(Len(calls) + 2))
       /\ UNCHANGED <<clientId, clientSecret, accessToken, lastToken>>

\* The track ids playlist.tracks.items.map(item => item.track.id) reads:
\* <<TRUE, ids>>, or <<FALSE, <<>>>> when reading them throws before the
\* first getTrackFeatures call.
TrackIdsOf(playlist) ==
    LET items == Get(Get(playlist, "tracks"), "items")
    IN  IF items.k = "trackItems" THEN <<TRUE, items.s>>
        ELSE IF items.k = "list" /\ items.s = <<>> THEN <<TRUE, <<>>>>
        ELSE <<FALSE, <<>>>>

\* Mutation of Falsy: only null counts as no playlist.
FalsyNullOnly(v) == v.k = "null"

\* The playlist is absent to analyzePlaylist when it is falsy.
Falsy(v) == Nullish(v)

\* Mutation of analyzePlaylistMap: the tracks are fetched one after the
\* other, so only the call for the first track is made here.
analyzePlaylistMapSequential(p) ==
    /\ calls[p].method = "analyzePlaylist"
    /\ calls[p].pc = "getPlaylist"
    /\ calls[PlaylistCall(p)].pc = "done"
    /\ LET playlist == calls[PlaylistCall(p)].result
           ids == TrackIdsOf(playlist)
           n == IF Len(ids[2]) > 1 THEN 1 ELSE Len(ids[2])
       IN  IF Falsy(playlist)
           THEN /\ calls' = [calls EXCEPT ![p].pc = "done", ![p].result = undefined]
                /\ reqs' = reqs
           ELSE IF ~ids[1]
           THEN /\ calls' = [calls EXCEPT ![p].pc = "done", ![p].result = TypeError]
                /\ reqs' = reqs
           ELSE /\ calls' = [calls EXCEPT ![p].pc = "all"] \o
                      [i \in 1..n |-> Frame("getTrackFeatures", <<ids[2][i]>>, p,
                                            "authenticate")]
                /\ reqs' = reqs \o
                      [i \in 1..n |-> authenticateRequest(Len(calls) + i)]
    /\ UNCHANGED <<clientId, clientSecret, accessToken, lastToken>>

\* analyzePlaylist, resumed with the playlist: it returns when there is
\* none, and otherwise calls getTrackFeatures for every track, one after
\* the other, each call running up to its token request.
analyzePlaylistMap(p) ==
    /\ calls[p].method = "analyzePlaylist"
    /\ calls[p].pc = "getPlaylist"
    /\ calls[PlaylistCall(p)].pc = "done"
    /\ LET playlist == calls[PlaylistCall(p)].result
           ids == TrackIdsOf(playlist)
           n == Len(ids[2])
       IN  IF Falsy(playlist)
           THEN /\ calls' = [calls EXCEPT ![p].pc = "done", ![p].result = undefined]
                /\ reqs' = reqs
           ELSE IF ~ids[1]
           THEN /\ calls' = [calls EXCEPT ![p].pc = "done", ![p].result = TypeError]
                /\ reqs' = reqs
           ELSE /\ calls' = [calls EXCEPT ![p].pc = "all"] \o
                      [i \in 1..n |-> Frame("getTrackFeatures", <<ids[2][i]>>, p,
                                            "authenticate")]
                /\ reqs' = reqs \o
                      [i \in 1..n |-> authenticateRequest(Len(calls) + i)]
    /\ UNCHANGED <<clientId, clientSecret, accessToken, lastToken>>

\* Mutation of PromiseAll: the values in the order the promises settled.
PromiseAllAsSettled(cs) ==
    [i \in 1..Len(cs) |->
        calls[CHOOSE c \in {cs[j] : j \in 1..Len(cs)} :
                 Cardinality({d \in {cs[j] : j \in 1..Len(cs)} :
                                 calls[d].nth < calls[c].nth}) = i - 1].result]

\* Promise.all over the getTrackFeatures promises, none of which rejects:
\* it resolves when all of them have, to their values in call order.
PromiseAll(cs) == [i \in 1..Len(cs) |-> calls[cs[i]].result]

\* Mutation of analyzePlaylistResolve: the call resumes as soon as one of
\* the promises has settled.
analyzePlaylistResolveFirst(p) ==
    /\ calls[p].method = "analyzePlaylist"
    /\ calls[p].pc = "all"
    /\ \/ FeatureCalls(p) = <<>>
       \/ \E i \in 1..Len(FeatureCalls(p)) : calls[FeatureCalls(p)[i]].pc = "done"
    /\ calls' = [calls EXCEPT ![p].pc = "done",
                              ![p].result = Val("array", 0, <<>>),
                              ![p].results = PromiseAll(FeatureCalls(p))]
    /\ UNCHANGED <<clientId, clientSecret, accessToken, reqs, lastToken>>

analyzePlaylistResolve(p) ==
    /\ calls[p].method = "analyzePlaylist"
    /\ calls[p].pc = "all"
    /\ \A c \in Children(p) : calls[c].pc = "done"
    /\ calls' = [calls EXCEPT ![p].pc = "done",
                              ![p].result = Val("array", 0, <<>>),
                              ![p].results = PromiseAll(FeatureCalls(p))]
    /\ UNCHANGED <<clientId, clientSecret, accessToken, reqs, lastToken>>

(* --------------------------- specification ----------------------------- *)
Next ==
    \/ makeRequest
    \/ getPlaylist
    \/ searchTracks
    \/ getAlbum
    \/ getArtist
    \/ getUserProfile
    \/ getArtistTopTracks
    \/ getArtistAlbums
    \/ createPlaylist
    \/ addTracksToPlaylist
    \/ getTrackFeatures
    \/ analyzePlaylist
    \/ \E c \in Frames : authenticate(c)
    \/ \E c \in Frames : makeRequestGet(c)
    \/ \E c \in Frames : makeRequestResolve(c)
    \/ \E c \in Frames : postResolve(c)
    \/ \E p \in Frames : analyzePlaylistMap(p)
    \/ \E p \in Frames : analyzePlaylistResolve(p)

Spec == Init /\ [][Next]_vars

\* The steps of the read path that are not calls of the caller: the
\* transport delivers a response, or the event loop resumes a call whose
\* await has settled.
Resume ==
    \E c \in Frames :
       \/ authenticate(c)
       \/ makeRequestGet(c)
       \/ makeRequestResolve(c)
       \/ analyzePlaylistMap(c)
       \/ analyzePlaylistResolve(c)

\* The client used through TrackAnalysis, and through makeRequest by the
\* other users of the Wrapper it shares.
NextAnalysis ==
    \/ makeRequest
    \/ getTrackFeatures
    \/ analyzePlaylist
    \/ Resume

\* Every request is answered in the end and the event loop runs every
\* continuation that is ready.
LiveSpec == Init /\ [][NextAnalysis]_vars /\ WF_vars(Resume)

TypeOK ==
    /\ accessToken \in {NullToken} \cup Tokens
    /\ Len(calls) <= MaxCalls

(* ------------------------------ claims --------------------------------- *)
ReadFrames == {c \in Frames : calls[c].method \in ReadMethods}
TokenRequests == {r \in Requests : reqs[r].kind = "token"}
Failed(c, kind) == {r \in RequestsOf(c, kind) : reqs[r].status = "failed"}
Succeeded(c, kind) == {r \in RequestsOf(c, kind) : reqs[r].status = "ok"}

\* C1: every call of makeRequest, direct or through a read method, issues
\* exactly one token request, whether or not a token was held when it
\* started, and that token request has completed, with a success or a
\* failure, before the call's GET is issued.  No request but the one of a
\* makeRequest call goes to the token endpoint.
C1_OneTokenRequestBeforeGet ==
    /\ \A c \in ReadFrames :
          /\ Cardinality(RequestsOf(c, "token")) = 1
          /\ Cardinality(RequestsOf(c, "GET")) <= 1
          /\ \A g \in RequestsOf(c, "GET") : \A t \in RequestsOf(c, "token") :
                t < g /\ reqs[t].status # "pending"
    /\ Cardinality(TokenRequests) = Cardinality(ReadFrames)

\* A call that started while a token was held (an earlier call had fetched
\* it and gone on to its GET) has fetched a token of its own and issued its
\* GET.
C1_Witness ==
    \E c1 \in ReadFrames, c2 \in ReadFrames :
       \E t1 \in Succeeded(c1, "token"), g1 \in RequestsOf(c1, "GET"),
          t2 \in RequestsOf(c2, "token"), g2 \in RequestsOf(c2, "GET") :
          g1 < t2 /\ t2 < g2

\* The read methods C2 names.
C2Methods ==
    {"makeRequest", "getPlaylist", "getAlbum", "getArtist", "getUserProfile",
     "getArtistTopTracks", "getArtistAlbums", "searchTracks"}

\* C2 as stated: a read method whose GET or whose token request failed
\* resolves to the absent value.
C2_AbsentOnAnyFailure ==
    \A c \in Frames :
       (/\ calls[c].method \in C2Methods
        /\ calls[c].pc = "done"
        /\ Failed(c, "GET") \cup Failed(c, "token") # {})
       => calls[c].result = undefined

\* C2, amended: a read method whose GET failed has resolved to the absent
\* value (it has not thrown, and a list method has not made an empty list
\* of it), whether its token request succeeded or failed.
C2_AbsentOnGetFailure ==
    \A c \in Frames :
       (calls[c].method \in C2Methods /\ Failed(c, "GET") # {})
       => calls[c].pc = "done" /\ calls[c].result = undefined

\* A list method whose token request and GET both failed has resolved.
C2_Witness ==
    \E c \in Frames :
       /\ calls[c].method \in {"searchTracks", "getArtistTopTracks", "getArtistAlbums"}
       /\ Failed(c, "token") # {}
       /\ Failed(c, "GET") # {}
       /\ calls[c].pc = "done"

AnalyzeFrames == {p \in Frames : calls[p].method = "analyzePlaylist"}
\* The GETs to the audio-features endpoint made on behalf of the call p.
FeatureGets(p) ==
    {r \in Requests : /\ reqs[r].kind = "GET"
                      /\ reqs[r].url[1] = "audio-features"
                      /\ reqs[r].owner \in Children(p)}
\* The body the transport answered the playlist GET of the call p with, if
\* the GET has succeeded; undefined otherwise.
FetchedPlaylist(p) ==
    LET g == Succeeded(PlaylistCall(p), "GET")
    IN  IF g = {} THEN undefined ELSE reqs[CHOOSE r \in g : TRUE].body
\* What the transport made of request r.
Outcome(r) == IF reqs[r].status = "ok" THEN reqs[r].body ELSE undefined

\* C3: for a playlist fetched successfully that has N tracks, analyzePlaylist
\* issues exactly N GETs to the audio-features endpoint, one per track,
\* duplicates included, and returns a list of length N whose position i
\* holds the outcome of the request for the i-th track, in whatever order
\* the responses completed.
C3_OneFeatureGetPerTrackInOrder ==
    \A p \in AnalyzeFrames :
       FetchedPlaylist(p).k = "playlist" =>
          LET tracks == FetchedPlaylist(p).s
              F == FeatureCalls(p)
          IN  /\ Cardinality(FeatureGets(p)) <= Len(tracks)
              /\ calls[p].pc = "done" =>
                    /\ Cardinality(FeatureGets(p)) = Len(tracks)
                    /\ calls[p].result.k = "array"
                    /\ Len(calls[p].results) = Len(tracks)
                    /\ Len(F) = Len(tracks)
                    /\ \A i \in 1..Len(tracks) :
                          \E g \in RequestsOf(F[i], "GET") :
                             /\ reqs[g].url = <<"audio-features", tracks[i]>>
                             /\ calls[p].results[i] = Outcome(g)

\* analyzePlaylist has returned for a playlist that lists one track twice;
\* the request for the second entry completed before the one for the first,
\* and the two outcomes differ.
C3_Witness ==
    \E p \in AnalyzeFrames :
       /\ calls[p].pc = "done"
       /\ FetchedPlaylist(p).k = "playlist"
       /\ Len(FetchedPlaylist(p).s) = 2
       /\ FetchedPlaylist(p).s[1] = FetchedPlaylist(p).s[2]
       /\ Len(calls[p].results) = 2
       /\ calls[p].results[1] # calls[p].results[2]
       /\ calls[FeatureCalls(p)[2]].nth < calls[FeatureCalls(p)[1]].nth

\* C4: when the playlist fetch of analyzePlaylist yields the absent value,
\* analyzePlaylist returns absent, and the call issues no request to the
\* audio-features endpoint and no further token request: it makes no call
\* but the one to getPlaylist.
C4_AbsentPlaylistNoFeatureRequests ==
    \A p \in AnalyzeFrames :
       (calls[PlaylistCall(p)].pc = "done" /\ calls[PlaylistCall(p)].result = undefined)
       => /\ Children(p) = {PlaylistCall(p)}
          /\ FeatureGets(p) = {}
          /\ \A r \in Requests :
                reqs[r].owner \in Children(p) \cup {p} =>
                   r \in RequestsOf(PlaylistCall(p), "token")
                           \cup RequestsOf(PlaylistCall(p), "GET")
          /\ calls[p].pc \in {"getPlaylist", "done"}
          /\ calls[p].pc = "done" =>
                calls[p].result = undefined /\ calls[p].results = <<>>

\* analyzePlaylist has returned after its playlist GET failed, on a client
\* that has made other requests since.
C4_Witness ==
    \E p \in AnalyzeFrames :
       /\ Failed(PlaylistCall(p), "GET") # {}
       /\ calls[p].pc = "done"
       /\ \E r \in Requests : reqs[r].owner \notin Children(p) \cup {p}

\* C5 as stated: once the playlist is retrieved, analyzePlaylist does not
\* fail; the slot of every track whose feature request failed, by its GET or
\* by its token request, holds absent, and the other slots hold the bodies.
C5_AbsentSlotOnAnyFailure ==
    \A p \in AnalyzeFrames :
       (FetchedPlaylist(p).k = "playlist" /\ calls[p].pc = "done") =>
          /\ calls[p].result.k = "array"
          /\ \A i \in 1..Len(FeatureCalls(p)) :
                LET c == FeatureCalls(p)[i]
                IN  IF Failed(c, "GET") \cup Failed(c, "token") # {}
                    THEN calls[p].results[i] = undefined
                    ELSE \E g \in Succeeded(c, "GET") :
                            calls[p].results[i] = reqs[g].body

\* C5, amended: once the playlist is retrieved, analyzePlaylist does not
\* fail, whichever of the token requests and GETs of its tracks fail: it
\* resolves to a list in which the slot of every track whose GET failed
\* holds absent and every other slot holds the body of the track's GET,
\* also when the track's token request failed.
C5_AbsentSlotOnGetFailure ==
    \A p \in AnalyzeFrames :
       FetchedPlaylist(p).k = "playlist" =>
          /\ calls[p].result # TypeError
          /\ \A c \in Children(p) : calls[c].result # TypeError
          /\ calls[p].pc = "done" =>
                /\ calls[p].result.k = "array"
                /\ Len(calls[p].results) = Len(FetchedPlaylist(p).s)
                /\ \A i \in 1..Len(FeatureCalls(p)) :
                      LET c == FeatureCalls(p)[i]
                      IN  IF Failed(c, "GET") # {}
                          THEN calls[p].results[i] = undefined
                          ELSE \E g \in Succeeded(c, "GET") :
                                  calls[p].results[i] = reqs[g].body

\* analyzePlaylist has returned for two tracks: the GET of one failed, the
\* token request of the other failed and its GET succeeded.
C5_Witness ==
    \E p \in AnalyzeFrames :
       /\ calls[p].pc = "done"
       /\ FetchedPlaylist(p).k = "playlist"
       /\ \E c \in Children(p), d \in Children(p) :
             /\ calls[c].method = "getTrackFeatures"
             /\ calls[d].method = "getTrackFeatures"
             /\ Failed(c, "GET") # {}
             /\ Failed(d, "token") # {}
             /\ Succeeded(d, "GET") # {}

\* The requests and frames a step adds, and the token requests it completes.
NewRequests == (1..Len(reqs')) \ Requests
NewFrames == (1..Len(calls')) \ Frames
Completing(status) ==
    {t \in TokenRequests : reqs[t].status = "pending" /\ reqs'[t].status = status}
OkTokens == {reqs[t].body.n : t \in {u \in TokenRequests : reqs[u].status = "ok"}}

\* C6: with several makeRequest calls in flight, every token response that
\* succeeds overwrites accessToken (the last write wins); a GET carries the
\* value accessToken has when its call builds the options, which is the
\* initial unset value or a token returned by a token request completed
\* before; and no later step changes what an issued request carries.
C6_Step ==
    /\ \A t \in Completing("ok") : accessToken' = reqs'[t].body.n
    /\ \A r \in NewRequests :
          reqs'[r].kind = "GET" =>
             /\ reqs'[r].auth = <<"Bearer", accessToken>>
             /\ accessToken \in {NullToken} \cup OkTokens
    /\ \A r \in Requests :
          /\ reqs'[r].auth = reqs[r].auth
          /\ reqs'[r].owner = reqs[r].owner
          /\ reqs'[r].url = reqs[r].url
C6_BearerCapturedAtOptions == [][C6_Step]_vars

\* Two calls were in flight together; the GET of the first is still in
\* flight, carrying the token the first call fetched, and the second call
\* has overwritten accessToken with another token since.
C6_Witness ==
    \E c1 \in ReadFrames, c2 \in ReadFrames :
       \E t1 \in Succeeded(c1, "token"), g1 \in PendingOf(c1, "GET"),
          t2 \in Succeeded(c2, "token") :
          /\ c1 # c2
          /\ t2 < g1
          /\ reqs[g1].auth = <<"Bearer", reqs[t1].body.n>>
          /\ accessToken = reqs[t2].body.n
          /\ accessToken # reqs[g1].auth[2]

\* C7: when the GET succeeds, makeRequest, getPlaylist, getAlbum, getArtist,
\* getUserProfile and getTrackFeatures return the response body unchanged,
\* searchTracks returns body.tracks.items, getArtistTopTracks returns
\* body.tracks and getArtistAlbums returns body.items.
C7_BodyOrUnwrappedField ==
    \A c \in ReadFrames : \A g \in Succeeded(c, "GET") :
       LET body == reqs[g].body
           m == calls[c].method
       IN  /\ calls[c].pc = "done"
           /\ m \notin {"searchTracks", "getArtistTopTracks", "getArtistAlbums"}
                 => calls[c].result = body
           /\ (m = "searchTracks" /\ body.k = "search")
                 => calls[c].result = Val("list", 0, body.s)
           /\ (m = "getArtistTopTracks" /\ body.k = "topTracks")
                 => calls[c].result = Val("list", 0, body.s)
           /\ (m = "getArtistAlbums" /\ body.k = "paging")
                 => calls[c].result = Val("list", 0, body.s)

\* searchTracks has returned the one track of {tracks: {items: [track]}}.
C7_Witness ==
    \E c \in ReadFrames : \E g \in Succeeded(c, "GET") :
       /\ calls[c].method = "searchTracks"
       /\ calls[c].pc = "done"
       /\ reqs[g].body.k = "search"
       /\ Len(reqs[g].body.s) = 1

PostMethods == {"createPlaylist", "addTracksToPlaylist"}
PostFrames == {c \in Frames : calls[c].method \in PostMethods}

\* C8: createPlaylist and addTracksToPlaylist issue no token request and
\* leave accessToken as it is; the POST carries the value accessToken holds
\* when the method is called, which is the initial unset value on a client
\* no token request of which has succeeded.
C8_Step ==
    /\ \A c \in NewFrames :
          calls'[c].method \in PostMethods =>
             /\ accessToken' = accessToken
             /\ Cardinality(NewRequests) = 1
             /\ \A r \in NewRequests :
                   /\ reqs'[r].kind = "POST"
                   /\ reqs'[r].owner = c
                   /\ reqs'[r].auth = <<"Bearer", accessToken>>
                   /\ OkTokens = {} => reqs'[r].auth[2] = NullToken
    /\ \A c \in PostFrames :
          calls'[c] # calls[c] =>
             /\ accessToken' = accessToken
             /\ NewRequests = {}
    /\ \A r \in Requests :
          reqs[r].owner \in PostFrames => reqs[r].kind = "POST"
C8_PostUsesCurrentToken == [][C8_Step]_vars

\* A POST has been answered that carried the initial unset value, on a
\* client whose one attempt to authenticate had failed before.
C8_Witness ==
    \E c \in PostFrames : \E r \in RequestsOf(c, "POST") :
       /\ calls[c].pc = "done"
       /\ reqs[r].auth = <<"Bearer", NullToken>>
       /\ \E t \in TokenRequests : t < r /\ reqs[t].status = "failed"

\* C9: a call of createPlaylist or addTracksToPlaylist issues exactly one
\* POST and does not throw: createPlaylist returns the response body
\* unchanged on success and absent on failure; addTracksToPlaylist resolves
\* to no value when the POST succeeds, whatever the body, and when it fails.
C9_OnePostNeverThrows ==
    \A c \in PostFrames :
       /\ Cardinality(RequestsOf(c, "POST")) = 1
       /\ calls[c].result # TypeError
       /\ \A r \in RequestsOf(c, "POST") :
             /\ reqs[r].status = "pending" <=> calls[c].pc = "post"
             /\ reqs[r].status # "pending" => calls[c].pc = "done"
             /\ calls[c].method = "addTracksToPlaylist" =>
                   /\ calls[c].result = undefined
                   /\ reqs[r].data = <<calls[c].args[2]>>
             /\ (calls[c].method = "createPlaylist" /\ reqs[r].status = "ok") =>
                   calls[c].result = reqs[r].body
             /\ (calls[c].method = "createPlaylist" /\ reqs[r].status = "failed") =>
                   calls[c].result = undefined

\* addTracksToPlaylist has resolved after a POST answered with a body, and
\* createPlaylist after a POST that failed.
C9_Witness ==
    \E c \in PostFrames, d \in PostFrames :
       /\ calls[c].method = "addTracksToPlaylist"
       /\ calls[c].pc = "done"
       /\ \E r \in Succeeded(c, "POST") : reqs[r].body # undefined
       /\ calls[d].method = "createPlaylist"
       /\ calls[d].pc = "done"
       /\ Failed(d, "POST") # {}

\* C10: a failed authenticate leaves accessToken at the value it had, a
\* successful one overwrites it with the returned token, and nothing else
\* writes it: accessToken is the initial unset value or the token of the
\* token request that succeeded last.  clientId and clientSecret never
\* change.
C10_Step ==
    /\ clientId' = clientId
    /\ clientSecret' = clientSecret
    /\ \A t \in Completing("ok") : accessToken' = reqs'[t].body.n
    /\ Completing("ok") = {} => accessToken' = accessToken
    /\ accessToken' = IF lastToken' = 0 THEN NullToken ELSE reqs'[lastToken'].body.n
    /\ lastToken' # 0 => reqs'[lastToken'].kind = "token" /\ reqs'[lastToken'].status = "ok"
C10_TokenOfLastSuccess == [][C10_Step]_vars

\* A token request has failed after another had succeeded (the failing call
\* started when the other was already at its GET), and accessToken still
\* holds the token of the one that succeeded.
C10_Witness ==
    \E t \in TokenRequests, f \in TokenRequests :
       /\ reqs[t].status = "ok"
       /\ reqs[f].status = "failed"
       /\ \E g \in RequestsOf(reqs[t].owner, "GET") : g < f
       /\ lastToken = t
       /\ accessToken = reqs[t].body.n
       /\ accessToken # NullToken

\* The requests to the API proper: every request but the token requests.
ApiRequests == {r \in Requests : reqs[r].kind \in {"GET", "POST"}}

\* C11: the access token is fetched again before every request to the API
\* and is not reused: every GET and every POST is preceded by a completed
\* token request of the call that issues it, and no token returned by a
\* token request is carried by more than one GET or POST.
C11_FreshTokenPerApiRequest ==
    /\ \A r \in ApiRequests :
          \E t \in RequestsOf(reqs[r].owner, "token") :
             t < r /\ reqs[t].status # "pending"
    /\ \A t \in TokenRequests :
          reqs[t].status = "ok" =>
             Cardinality({r \in ApiRequests :
                             reqs[r].auth = <<"Bearer", reqs[t].body.n>>}) <= 1

\* C12: for searchTracks, getArtistTopTracks and getArtistAlbums a
\* successful response whose body lacks the field the method unwraps
\* (tracks, tracks.items, items) ends as a failed request does: the method
\* resolves to the absent value and does not throw.
LacksField(method, body) ==
    CASE method = "searchTracks" -> body.k # "search"
      [] method = "getArtistTopTracks" -> body.k # "topTracks"
      [] method = "getArtistAlbums" -> body.k # "paging"
      [] OTHER -> FALSE
C12_MissingFieldIsAbsent ==
    \A c \in ReadFrames : \A g \in Succeeded(c, "GET") :
       LacksField(calls[c].method, reqs[g].body) =>
          calls[c].pc = "done" /\ calls[c].result = undefined

\* C14: analyzePlaylist starts the fetches of all N tracks of the playlist
\* in the one step in which it resumes with the playlist, each up to its own
\* token request, before any of them completes; a fetch is started in no
\* other step, so the start of none waits for the completion of another.
C14_Step ==
    /\ \A p \in AnalyzeFrames :
          (calls[p].pc = "getPlaylist" /\ calls'[p].pc = "all") =>
             LET tracks == FetchedPlaylist(p).s
             IN  /\ Cardinality(NewFrames) = Len(tracks)
                 /\ Cardinality(NewRequests) = Len(tracks)
                 /\ \A i \in 1..Len(tracks) :
                       LET c == Len(calls) + i
                       IN  /\ calls'[c].method = "getTrackFeatures"
                           /\ calls'[c].parent = p
                           /\ calls'[c].args = <<tracks[i]>>
                           /\ calls'[c].pc = "authenticate"
                           /\ \E r \in NewRequests :
                                 /\ reqs'[r].kind = "token"
                                 /\ reqs'[r].owner = c
                                 /\ reqs'[r].status = "pending"
    /\ \A c \in NewFrames :
          (calls'[c].method = "getTrackFeatures" /\ calls'[c].parent # 0) =>
             /\ calls[calls'[c].parent].pc = "getPlaylist"
             /\ calls'[calls'[c].parent].pc = "all"
C14_AllFetchesStartedTogether == [][C14_Step]_vars

\* The fetches of both tracks of a playlist are in flight at once, each at
\* its GET.
C14_Witness ==
    \E p \in AnalyzeFrames :
       /\ calls[p].pc = "all"
       /\ Len(FeatureCalls(p)) = 2
       /\ \A i \in 1..2 : PendingOf(FeatureCalls(p)[i], "GET") # {}

PlainFrames ==
    {c \in ReadFrames :
        calls[c].method \notin {"searchTracks", "getArtistTopTracks", "getArtistAlbums"}}

\* What C15 says of a state: a call whose token request failed has issued
\* no GET before it resumes and exactly one after, and when that GET has
\* succeeded the call has returned its body, not absent.
C15_State ==
    \A c \in ReadFrames :
       Failed(c, "token") # {} =>
          /\ calls[c].pc \in {"options", "get", "done"}
          /\ Cardinality(RequestsOf(c, "GET")) = IF calls[c].pc = "options" THEN 0 ELSE 1
          /\ \A g \in Succeeded(c, "GET") :
                /\ calls[c].pc = "done"
                /\ c \in PlainFrames =>
                      calls[c].result = reqs[g].body /\ calls[c].result # undefined

\* C15: a failed authenticate does not stop the request.  The failure leaves
\* accessToken as it is and the call goes on to issue exactly one GET, which
\* carries the value accessToken holds then (the unset value on a client no
\* token request of which has succeeded); when the GET succeeds makeRequest
\* returns its body, so the failure alone never makes it return absent.
C15_Step ==
    /\ \A t \in Completing("failed") :
          /\ accessToken' = accessToken
          /\ calls'[reqs[t].owner].pc = "options"
    /\ \A r \in NewRequests :
          (reqs'[r].kind = "GET" /\ Failed(reqs'[r].owner, "token") # {}) =>
             /\ reqs'[r].auth = <<"Bearer", accessToken>>
             /\ OkTokens = {} => reqs'[r].auth = <<"Bearer", NullToken>>
    /\ C15_State'
C15_FailedAuthenticateStillGets == [][C15_Step]_vars

\* makeRequest has returned the body of its GET, which carried the unset
\* value because the call's token request had failed.
C15_Witness ==
    \E c \in ReadFrames : \E g \in Succeeded(c, "GET") :
       /\ calls[c].method = "makeRequest"
       /\ Failed(c, "token") # {}
       /\ reqs[g].auth = <<"Bearer", NullToken>>
       /\ calls[c].pc = "done"
       /\ calls[c].result = reqs[g].body

\* analyzePlaylist has returned only when every call it made has settled
\* and every request of those calls has been answered; it has not rejected
\* unless the playlist body lacked its tracks.
C13_State ==
    \A p \in AnalyzeFrames :
       calls[p].pc = "done" =>
          /\ \A c \in Children(p) :
                /\ calls[c].pc = "done"
                /\ \A r \in Requests : reqs[r].owner = c => reqs[r].status # "pending"
          /\ FetchedPlaylist(p).k \in {"undefined", "null", "playlist"}
                => calls[p].result # TypeError
          /\ FetchedPlaylist(p).k = "playlist"
                => Len(FeatureCalls(p)) = Len(FetchedPlaylist(p).s)

\* C13: analyzePlaylist waits for the whole group: it does not resolve
\* while a feature request of one of its tracks is outstanding (so it never
\* resolves if one never completes), and when every token request and every
\* GET completes in the end, the call resolves in the end.
C13_WaitsForWholeGroup ==
    /\ []C13_State
    /\ \A p \in 1..MaxCalls :
          (p \in Frames /\ calls[p].method = "analyzePlaylist")
             ~> (p \in Frames /\ calls[p].pc = "done")

\* analyzePlaylist is waiting: the fetch of one of its two tracks has
\* settled and the request of the other is still outstanding.
C13_Witness ==
    \E p \in AnalyzeFrames :
       /\ calls[p].pc = "all"
       /\ Len(FeatureCalls(p)) = 2
       /\ \E i \in 1..2, j \in 1..2 :
             /\ calls[FeatureCalls(p)[i]].pc = "done"
             /\ PendingOf(FeatureCalls(p)[j], "GET") # {}

====
